---- MODULE Spec2Model ----
(***************************************************************************)
(* kubectl-foreach (src/main.go): main's pre-execution sequence, the       *)
(* confirmation prompt with its two goroutines and the io.Pipe between     *)
(* them, and runAll's errgroup-bounded fan-out of one kubectl command per  *)
(* matched context, under an interrupt that cancels the signal context.    *)
(***************************************************************************)
EXTENDS Integers, Sequences, FiniteSets, TLC

\* ---- bounds -------------------------------------------------------------
MaxTargets == 2     \* contexts returned by `kubectl config get-contexts`
MaxWorkers == 2     \* largest value of -c that is tried
MaxInput   == 3     \* bytes the input stream can deliver to prompt
MaxArgs    == 2     \* arguments after `--`
MaxArgLen  == 3     \* characters of one such argument
MaxNameLen == 2     \* characters of a context name
MaxReplLen == 2     \* characters of the value of -I

VARIABLES
    pc,           \* position of main
    exitCode,     \* -1 while the process runs, else the status of os.Exit
    exitReason,   \* which statement ended the process
    workers,      \* *workers (-c)
    quiet,        \* *quiet (-q)
    envSet,       \* os.Getenv(envDisablePrompts) != ""
    listed,       \* the matched contexts were printed to os.Stderr
    ctxDone,      \* ctx of signal.NotifyContext is cancelled
    ctxMatches,   \* result of matchContexts
    \* prompt
    promptPc,     \* "idle" | "enter" | "parked" | "returned"
    promptRet,    \* "none" | "ok" | "refused" | "cancelled"
    stdinRead,    \* bytes io.Copy has read from the input stream so far
    copyPc,       \* goroutine of line 264: "idle" | "read" | "write" | "done"
    chunk,        \* bytes offered by the pending pw.Write
    scanPc,       \* goroutine of line 269: "idle" | "scan" | "send_nil" | "send_refuse" | "done"
    sbuf,         \* bytes buffered by the bufio.Scanner
    prClosed,     \* pr.Close() was called
    pwClosed,     \* pw.Close() was called
    \* runAll
    n,            \* limit given to wg.SetLimit
    next,         \* index of the next element of the range loop
    task,         \* per index: "idle" | "launched" | "running" | "killed" | "done"
    res,          \* per index: "none" | "nil" | "exit" | "ctx" | "killed"
    sem,          \* tokens in the errgroup's semaphore (= its WaitGroup counter)
    gerr,         \* g.err of the errgroup
    groupCtxDone, \* the context derived by errgroup.WithContext is cancelled
    runErr,       \* value returned by runAll ("none" before it returns)
    cancelSnap,   \* task states at the moment ctx was cancelled inside runAll
    \* the strings runAll works with
    buildPc,      \* "off" | "call" | "loop"
    kubeCtxs,     \* names of the matched contexts, as runAll receives them
    kubectlArgs,  \* the arguments after `--`
    repl,         \* *repl (-I)
    padWidth,     \* the local maxLen of runAll (-1 before line 184)
    prefix,       \* per loop iteration done: the visible characters of its prefix
    argv,         \* per closure that called argMaker: the vector it got
    \* the error stream
    errLock,      \* 0, or the index of the Task whose write holds syncErr's lock
    sigPc         \* goroutine of line 92: "off" | "wait" | "write" | "done"

mainVars   == <<pc, exitCode, exitReason, workers, quiet, envSet, listed, ctxMatches>>
promptVars == <<promptPc, promptRet, stdinRead, copyPc, chunk,
                scanPc, sbuf, prClosed, pwClosed>>
runVars    == <<n, next, task, res, sem, gerr, groupCtxDone, runErr>>
buildVars  == <<buildPc, kubeCtxs, kubectlArgs, repl, padWidth, prefix, argv>>
syncVars   == <<errLock, sigPc>>
vars       == <<mainVars, promptVars, runVars, ctxDone, cancelSnap, buildVars, syncVars>>

\* ---- values -------------------------------------------------------------
Chars == {"y", "Y", "n", "nl", "cr"}     \* nl = '\n', cr = '\r'
\* what one r.Read can return: at most m bytes
Chunks(m) == UNION {[1..k -> Chars] : k \in 1..m}

\* results of matchContexts over the MaxTargets names that kubeContexts
\* returns (here 1..MaxTargets): sequences that keep the order of that list
IsOrdered(s) == \A i \in 1..Len(s) : \A j \in 1..Len(s) : i < j => s[i] < s[j]
MatchSets == {s \in UNION {[1..k -> 1..MaxTargets] : k \in 0..MaxTargets} : IsOrdered(s)}

Alive == exitCode = -1

\* os.Exit(code) reached from the statement named why
Exit(code, why) ==
    /\ pc' = "exited"
    /\ exitCode' = code
    /\ exitReason' = why

\* the process before main's first statement
MainInit ==
    /\ pc = "parse"
    /\ exitCode = -1
    /\ exitReason = "none"
    /\ workers = 0
    /\ quiet = FALSE
    /\ envSet = FALSE
    /\ listed = FALSE
    /\ ctxDone = FALSE
    /\ ctxMatches = <<>>
    /\ promptPc = "idle"
    /\ promptRet = "none"
    /\ stdinRead = <<>>
    /\ copyPc = "idle"
    /\ chunk = <<>>
    /\ scanPc = "idle"
    /\ sbuf = <<>>
    /\ prClosed = FALSE
    /\ pwClosed = FALSE
    /\ n = 0
    /\ next = 0
    /\ task = <<>>
    /\ res = <<>>
    /\ sem = 0
    /\ gerr = "nil"
    /\ groupCtxDone = FALSE
    /\ runErr = "none"
    /\ cancelSnap = <<>>
    /\ errLock = 0
    /\ sigPc = "off"

\* the strings are left out of the runs that follow the control flow
BuildOff ==
    /\ buildPc = "off"
    /\ kubeCtxs = <<>>
    /\ kubectlArgs = <<>>
    /\ repl = <<>>
    /\ padWidth = -1
    /\ prefix = <<>>
    /\ argv = <<>>

Init == MainInit /\ BuildOff

\* ---- main: lines 73-123 -------------------------------------------------

\* printUsage ends with os.Exit(0)
PrintUsageExit == 0
\* printErrAndExit ends with os.Exit(1)
PrintErrExit == 1

\* fl.Parse(os.Args[1:]).  With flag.ContinueOnError every failing path of the
\* flag package (-h/-help as well as an undefined flag or a bad value) calls
\* fl.Usage before Parse returns its error; fl.Usage was set on line 76 to
\* printUsage, which exits the process itself.
ParseFlags ==
    /\ pc = "parse"
    /\ \E outcome \in {"ok", "help", "bad"}, w \in -1..MaxWorkers, q \in BOOLEAN :
         IF outcome = "ok"
           THEN /\ workers' = w
                /\ quiet' = q
                /\ pc' = "separate"
                /\ UNCHANGED <<exitCode, exitReason>>
           ELSE /\ Exit(PrintUsageExit, IF outcome = "help" THEN "help" ELSE "flagerr")
                /\ UNCHANGED <<workers, quiet>>
    /\ UNCHANGED <<envSet, listed, ctxMatches, promptVars, runVars, ctxDone, cancelSnap,
                   buildVars, syncVars>>

\* separateArgs(os.Args[1:]) and its error branch
SeparateArgs ==
    /\ pc = "separate"
    /\ \E ok \in BOOLEAN :
         IF ok THEN pc' = "notify" /\ UNCHANGED <<exitCode, exitReason>>
               ELSE Exit(PrintErrExit, "separgs")
    /\ UNCHANGED <<workers, quiet, envSet, listed, ctxMatches, promptVars, runVars,
                   ctxDone, cancelSnap, buildVars, syncVars>>

\* signal.NotifyContext: from here on an interrupt cancels ctx; the goroutine
\* of lines 92-95 starts and waits for that
NotifyContext ==
    /\ pc = "notify"
    /\ pc' = "checkWorkers"
    /\ sigPc' = "wait"
    /\ UNCHANGED <<exitCode, exitReason, workers, quiet, envSet, listed, ctxMatches,
                   promptVars, runVars, ctxDone, cancelSnap, buildVars, errLock>>

CheckWorkers ==
    /\ pc = "checkWorkers"
    /\ IF workers < 0 THEN Exit(PrintErrExit, "negc")
                      ELSE pc' = "kubeContexts" /\ UNCHANGED <<exitCode, exitReason>>
    /\ UNCHANGED <<workers, quiet, envSet, listed, ctxMatches, promptVars, runVars,
                   ctxDone, cancelSnap, buildVars, syncVars>>

\* kubeContexts(ctx): exec.CommandContext refuses to start under a cancelled
\* ctx; otherwise the command succeeds or fails
KubeContexts ==
    /\ pc = "kubeContexts"
    /\ \E ok \in BOOLEAN :
         IF ok /\ ~ctxDone THEN pc' = "filters" /\ UNCHANGED <<exitCode, exitReason>>
                           ELSE Exit(PrintErrExit, "ctxlist")
    /\ UNCHANGED <<workers, quiet, envSet, listed, ctxMatches, promptVars, runVars,
                   ctxDone, cancelSnap, buildVars, syncVars>>

\* the second fl.Parse (same flags, it succeeds as the first one did) and the
\* parseFilter loop
ParseFilters ==
    /\ pc = "filters"
    /\ \E ok \in BOOLEAN :
         IF ok THEN pc' = "match" /\ UNCHANGED <<exitCode, exitReason>>
               ELSE Exit(PrintErrExit, "pattern")
    /\ UNCHANGED <<workers, quiet, envSet, listed, ctxMatches, promptVars, runVars,
                   ctxDone, cancelSnap, buildVars, syncVars>>

\* matchContexts and the empty check
MatchContexts ==
    /\ pc = "match"
    /\ \E m \in MatchSets :
         /\ ctxMatches' = m
         /\ IF Len(m) = 0 THEN Exit(PrintErrExit, "nomatch")
                          ELSE pc' = "gate" /\ UNCHANGED <<exitCode, exitReason>>
    /\ UNCHANGED <<workers, quiet, envSet, listed, promptVars, runVars, ctxDone, cancelSnap,
                   buildVars, syncVars>>

\* ---- main: lines 125-140, the confirmation gate -------------------------

\* a gate that lists the contexts only when it also prompts
ListsTargets_m(e, q) == ~e /\ ~q

\* lines 125-134: both branches that print the matched contexts are inside
\* `if os.Getenv(envDisablePrompts) == ""` (e: the variable is set, q: -q)
ListsTargets(e, q) == ~e

\* a gate that forgets the environment variable
CallsPrompt_m(e, q) == ~q

\* lines 125-136: prompt is called in the else branch of `if *quiet`, inside
\* the same `if`
CallsPrompt(e, q) == ~e /\ ~q

\* os.Getenv(envDisablePrompts) == "" selects between listing (with -q),
\* listing and prompting (without), and neither (variable set)
Gate ==
    /\ pc = "gate"
    /\ \E e \in BOOLEAN :
         /\ envSet' = e
         /\ listed' = ListsTargets(e, quiet)
         /\ pc' = IF CallsPrompt(e, quiet) THEN "promptCall" ELSE "runAll"
    /\ UNCHANGED <<exitCode, exitReason, workers, quiet, ctxMatches, promptVars, runVars,
                   ctxDone, cancelSnap, buildVars, syncVars>>

\* ---- prompt: lines 262-288 ----------------------------------------------

HasNL(b) == \E i \in 1..Len(b) : b[i] = "nl"
IndexNL(b) == CHOOSE i \in 1..Len(b) : b[i] = "nl" /\ \A j \in 1..(i-1) : b[j] # "nl"

\* bufio.dropCR
dropCR(d) == IF Len(d) > 0 /\ d[Len(d)] = "cr" THEN SubSeq(d, 1, Len(d) - 1) ELSE d

\* bufio.ScanLines(data, atEOF): the first token of the buffer, or "none"
\* when more data is needed
ScanLines(data, atEOF) ==
    IF HasNL(data) THEN dropCR(SubSeq(data, 1, IndexNL(data) - 1))
    ELSE IF atEOF /\ Len(data) > 0 THEN dropCR(data)
    ELSE "none"

\* a comparison that forgets the upper-case answer
Accepted_m(v) == v = <<"y">> \/ v = <<>>

\* line 273: v == "y" || v == "Y" || v == ""
Accepted(v) == v = <<"y">> \/ v = <<"Y">> \/ v = <<>>

\* position of the scanning goroutine once s.Scan() has returned: true with
\* token v (lines 272-276), or false (tok = "none", line 278)
AfterScan(tok) == IF tok # "none" /\ Accepted(tok) THEN "send_nil" ELSE "send_refuse"

\* a select without its ctx.Done() arm
CtxDoneArm_m(done) == FALSE

\* readiness of the arm `case <-ctx.Done()` of the select
CtxDoneArm(done) == done

\* readiness of the arm `case res := <-scanDone`: the scanning goroutine is
\* at one of its two sends
ScanDoneArm == scanPc \in {"send_nil", "send_refuse"}

\* lines 263-279: the pipe and the two goroutines; the input stream is the
\* process's os.Stdin
PromptStart ==
    /\ pc = "promptCall"
    /\ pc' = "inPrompt"
    /\ promptPc' = "enter"
    /\ copyPc' = "read"
    /\ scanPc' = "scan"
    /\ UNCHANGED <<exitCode, exitReason, workers, quiet, envSet, listed, ctxMatches,
                   promptRet, stdinRead, chunk, sbuf, prClosed, pwClosed,
                   runVars, ctxDone, cancelSnap, buildVars, syncVars>>

\* io.Copy: r.Read returns the bytes the input stream has for it
CopierRead ==
    /\ Alive /\ copyPc = "read"
    /\ \E c \in Chunks(MaxInput - Len(stdinRead)) :
         /\ chunk' = c
         /\ stdinRead' = stdinRead \o c
    /\ copyPc' = "write"
    /\ UNCHANGED <<mainVars, promptPc, promptRet, scanPc, sbuf,
                   prClosed, pwClosed, runVars, ctxDone, cancelSnap, buildVars, syncVars>>

\* io.Copy: r.Read returns io.EOF and io.Copy returns; nothing closes pw here
CopierEOF ==
    /\ Alive /\ copyPc = "read"
    /\ copyPc' = "done"
    /\ UNCHANGED <<mainVars, promptPc, promptRet, stdinRead, chunk, scanPc,
                   sbuf, prClosed, pwClosed, runVars, ctxDone, cancelSnap, buildVars, syncVars>>

\* io.Copy: pw.Write fails on a pipe closed at either end and io.Copy returns
CopierWriteFail ==
    /\ Alive /\ copyPc = "write"
    /\ prClosed \/ pwClosed
    /\ copyPc' = "done"
    /\ chunk' = <<>>
    /\ UNCHANGED <<mainVars, promptPc, promptRet, stdinRead, scanPc,
                   sbuf, prClosed, pwClosed, runVars, ctxDone, cancelSnap, buildVars, syncVars>>

\* s.Scan(): pr.Read takes the bytes of the pending pw.Write (which then
\* returns) and the split function looks for a line
ScanRead ==
    /\ Alive /\ scanPc = "scan"
    /\ copyPc = "write" /\ ~prClosed /\ ~pwClosed
    /\ LET b == sbuf \o chunk
           tok == ScanLines(b, FALSE)
       IN  IF tok = "none"
             THEN sbuf' = b /\ scanPc' = "scan"
             ELSE sbuf' = <<>> /\ scanPc' = AfterScan(tok)
    /\ chunk' = <<>>
    /\ copyPc' = "read"
    /\ UNCHANGED <<mainVars, promptPc, promptRet, stdinRead,
                   prClosed, pwClosed, runVars, ctxDone, cancelSnap, buildVars, syncVars>>

\* s.Scan(): pr.Read fails on the closed pipe (io.EOF after pw.Close,
\* io.ErrClosedPipe after pr.Close); the scanner hands out what it buffered
\* as a last token, or returns false
ScanClosed ==
    /\ Alive /\ scanPc = "scan"
    /\ prClosed \/ pwClosed
    /\ scanPc' = AfterScan(ScanLines(sbuf, TRUE))
    /\ sbuf' = <<>>
    /\ UNCHANGED <<mainVars, promptPc, promptRet, stdinRead, copyPc, chunk,
                   prClosed, pwClosed, runVars, ctxDone, cancelSnap, buildVars, syncVars>>

\* the select takes `case res := <-scanDone` (on entry or while parked):
\* the send of the scanning goroutine completes, prompt returns res, and the
\* deferred pw.Close() runs
PromptRecv ==
    /\ Alive /\ promptPc \in {"enter", "parked"}
    /\ ScanDoneArm
    /\ promptRet' = IF scanPc = "send_nil" THEN "ok" ELSE "refused"
    /\ scanPc' = IF scanPc = "send_nil" THEN "send_refuse" ELSE "done"
    /\ promptPc' = "returned"
    /\ pwClosed' = TRUE
    /\ UNCHANGED <<mainVars, stdinRead, copyPc, chunk, sbuf, prClosed,
                   runVars, ctxDone, cancelSnap, buildVars, syncVars>>

\* the select finds ctx cancelled on entry: pr.Close(), return "prompt
\* canceled", deferred pw.Close()
PromptCtx ==
    /\ Alive /\ promptPc = "enter"
    /\ CtxDoneArm(ctxDone)
    /\ promptRet' = "cancelled"
    /\ promptPc' = "returned"
    /\ prClosed' = TRUE
    /\ pwClosed' = TRUE
    /\ UNCHANGED <<mainVars, stdinRead, copyPc, chunk, scanPc, sbuf,
                   runVars, ctxDone, cancelSnap, buildVars, syncVars>>

\* the select finds no arm ready and blocks
PromptPark ==
    /\ Alive /\ promptPc = "enter"
    /\ ~ScanDoneArm /\ ~CtxDoneArm(ctxDone)
    /\ promptPc' = "parked"
    /\ UNCHANGED <<mainVars, promptRet, stdinRead, copyPc, chunk, scanPc,
                   sbuf, prClosed, pwClosed, runVars, ctxDone, cancelSnap, buildVars, syncVars>>

\* line 136-138: main resumes with prompt's result
PromptReturned ==
    /\ pc = "inPrompt" /\ promptPc = "returned"
    /\ IF promptRet = "ok"
         THEN pc' = "runAll" /\ UNCHANGED <<exitCode, exitReason>>
         ELSE Exit(PrintErrExit, promptRet)
    /\ UNCHANGED <<workers, quiet, envSet, listed, ctxMatches, promptVars, runVars,
                   ctxDone, cancelSnap, buildVars, syncVars>>

\* ---- runAll: lines 175-259 -----------------------------------------------

\* a limit clamped to the number of contexts
Limit_m(len, w) == IF w > 0 /\ w < len THEN w ELSE len

\* lines 176-179: n := len(kubeCtxs); if *workers > 0 { n = *workers }
Limit(len, w) == IF w > 0 THEN w ELSE len

\* a group without SetLimit: Go never waits for a slot
SemAcquirable_m(s, lim) == TRUE

\* errgroup.Group.Go after SetLimit(lim): `g.sem <- token{}` on a channel of
\* capacity lim proceeds only while fewer than lim tokens are in it; nothing
\* else, the context included, lets it proceed
SemAcquirable(s, lim) == s < lim

\* commands started with the context derived by errgroup.WithContext
TaskCtxDone_m == groupCtxDone

\* the context the commands are started with: line 181 drops the context
\* derived by errgroup.WithContext, lines 232 and 238 pass runAll's own ctx
TaskCtxDone == ctxDone

\* the latest result overwrites g.err
GroupErr_m(old, r) == r

\* errgroup: g.errOnce.Do(func() { g.err = err; ... }) runs for the first
\* non-nil error only
GroupErr(old, r) == IF r # "nil" /\ old = "nil" THEN r ELSE old

Indices == DOMAIN task

RunAllStart ==
    /\ pc = "runAll"
    /\ pc' = "loop"
    /\ n' = Limit(Len(ctxMatches), workers)
    /\ next' = 1
    /\ task' = [i \in 1..Len(ctxMatches) |-> "idle"]
    /\ res' = [i \in 1..Len(ctxMatches) |-> "none"]
    /\ sem' = 0
    /\ gerr' = "nil"
    /\ groupCtxDone' = ctxDone
    /\ UNCHANGED <<exitCode, exitReason, workers, quiet, envSet, listed, ctxMatches,
                   promptVars, runErr, ctxDone, cancelSnap, buildVars, syncVars>>

\* a loop that walks the slice from its end
LoopIndex_m(i, len) == len + 1 - i

\* line 230: `for i, kctx := range kubeCtxs` takes the elements in index
\* order: the i-th iteration handles element i of len
LoopIndex(i, len) == i

\* one iteration of the range loop: wg.Go acquires a slot and starts the
\* goroutine of the closure
Dispatch ==
    /\ pc = "loop"
    /\ next <= Len(ctxMatches)
    /\ SemAcquirable(sem, n)
    /\ sem' = sem + 1
    /\ task' = [task EXCEPT ![LoopIndex(next, Len(ctxMatches))] = "launched"]
    /\ next' = next + 1
    /\ UNCHANGED <<mainVars, promptVars, n, res, gerr, groupCtxDone, runErr,
                   ctxDone, cancelSnap, buildVars, syncVars>>

\* a closure that runs the command again after a failure
TaskAfter_m(r) == IF r = "nil" THEN "done" ELSE "launched"

\* lines 234-239: the closure returns what run returned, whatever it is;
\* nothing starts the command a second time
TaskAfter(r) == "done"

\* the closure returned r: errgroup records the first error, cancels its own
\* context on it, releases the slot and the WaitGroup count
Finish(k, r) ==
    /\ errLock # k
    /\ task' = [task EXCEPT ![k] = TaskAfter(r)]
    /\ res' = [res EXCEPT ![k] = r]
    /\ gerr' = GroupErr(gerr, r)
    /\ groupCtxDone' = (groupCtxDone \/ r # "nil")
    /\ sem' = sem - 1
    /\ UNCHANGED <<mainVars, promptVars, n, next, runErr, ctxDone, cancelSnap,
                   buildVars, syncVars>>

\* run: cmd.Run() starts the process unless its context is already done (then
\* it returns the context's error) or the start itself fails
TaskStart(k) ==
    /\ Alive /\ task[k] = "launched"
    /\ IF TaskCtxDone
         THEN Finish(k, "ctx")
         ELSE \/ /\ task' = [task EXCEPT ![k] = "running"]
                 /\ UNCHANGED <<mainVars, promptVars, n, next, res, sem, gerr,
                                groupCtxDone, runErr, ctxDone, cancelSnap, buildVars, syncVars>>
              \/ Finish(k, "exit")

\* exec.CommandContext: the process is killed once its context is done
TaskKill(k) ==
    /\ Alive /\ task[k] = "running"
    /\ TaskCtxDone
    /\ task' = [task EXCEPT ![k] = "killed"]
    /\ UNCHANGED <<mainVars, promptVars, n, next, res, sem, gerr, groupCtxDone, runErr,
                   ctxDone, cancelSnap, buildVars, syncVars>>

\* the process exits by itself, with success or failure, and cmd.Run returns
TaskExit(k) ==
    /\ Alive /\ task[k] = "running"
    /\ \E r \in {"nil", "exit"} : Finish(k, r)

\* the killed process exits and cmd.Run returns its error
TaskKilledExit(k) ==
    /\ Alive /\ task[k] = "killed"
    /\ Finish(k, "killed")

\* a return that does not wait for the goroutines
WgDone_m(s) == TRUE

\* wg.Wait() blocks until the WaitGroup counter of the errgroup is zero
WgDone(s) == s = 0

\* line 241: wg.Wait() returns once every started goroutine is done
RunAllWait ==
    /\ pc = "loop"
    /\ next > Len(ctxMatches)
    /\ WgDone(sem)
    /\ runErr' = gerr
    /\ groupCtxDone' = TRUE
    /\ pc' = "runReturned"
    /\ UNCHANGED <<exitCode, exitReason, workers, quiet, envSet, listed, ctxMatches,
                   promptVars, n, next, task, res, sem, gerr, ctxDone, cancelSnap,
                   buildVars, syncVars>>

\* lines 146-149: printErrAndExit on an error, else main returns
MainEnd ==
    /\ pc = "runReturned"
    /\ IF runErr # "nil" THEN Exit(PrintErrExit, "taskfail") ELSE Exit(0, "ok")
    /\ UNCHANGED <<workers, quiet, envSet, listed, ctxMatches, promptVars, runVars,
                   ctxDone, cancelSnap, buildVars, syncVars>>

\* ---- the error stream ----------------------------------------------------

\* the running command of Task k writes to its stderr: the prefixingWriter
\* hands the bytes to syncErr (line 143), whose Write locks its mutex and
\* starts writing to os.Stderr
TaskWrite(k) ==
    /\ Alive
    /\ task[k] = "running"
    /\ errLock = 0
    /\ errLock' = k
    /\ UNCHANGED <<mainVars, promptVars, runVars, ctxDone, cancelSnap, buildVars, sigPc>>

\* that Write is over and unlocks the mutex; cmd.Run returns only after the
\* writes of its command are over
TaskWriteEnd(k) ==
    /\ Alive
    /\ errLock = k
    /\ errLock' = 0
    /\ UNCHANGED <<mainVars, promptVars, runVars, ctxDone, cancelSnap, buildVars, sigPc>>

\* lines 93-94: <-ctx.Done() has returned and
\* fmt.Fprintln(os.Stderr, gray("received exit signal")) starts writing to
\* os.Stderr itself; no lock is asked for
SigWrite ==
    /\ Alive
    /\ sigPc = "wait"
    /\ ctxDone
    /\ sigPc' = "write"
    /\ UNCHANGED <<mainVars, promptVars, runVars, ctxDone, cancelSnap, buildVars, errLock>>

\* line 94: Fprintln returns, and so does the goroutine
SigWriteEnd ==
    /\ Alive
    /\ sigPc = "write"
    /\ sigPc' = "done"
    /\ UNCHANGED <<mainVars, promptVars, runVars, ctxDone, cancelSnap, buildVars, errLock>>

\* ---- the strings of runAll: replaceArgs, maxLen, leftPad ------------------

\* A Go string is the sequence of its characters.
Alphabet == {"a", "b"}
Strs(lo, hi) == UNION {[1..k -> Alphabet] : k \in lo..hi}
\* what separateArgs leaves after `--`
ArgLists == UNION {[1..k -> Strs(0, MaxArgLen)] : k \in 0..MaxArgs}
\* what matchContexts returns (not empty after line 121)
NameLists == UNION {[1..k -> Strs(1, MaxNameLen)] : k \in 1..MaxTargets}

\* the literal "--context=" of line 154, kept as one character
ContextFlag == <<"--context=">>
\* the literal " | " of line 235
Separator == <<" ", "|", " ">>

\* strings.Replace(s, old, new, -1) for a non-empty old: the occurrences of
\* old are taken from left to right, each one starting after the previous one
RECURSIVE Replace(_, _, _)
Replace(s, old, new) ==
    IF Len(s) < Len(old) THEN s
    ELSE IF SubSeq(s, 1, Len(old)) = old
         THEN new \o Replace(SubSeq(s, Len(old) + 1, Len(s)), old, new)
         ELSE <<s[1]>> \o Replace(Tail(s), old, new)

\* a closure that substitutes in the shared slice itself
replaceArgs_m(args, rp, ctx) ==
    IF rp = <<>>
    THEN [out |-> <<ContextFlag \o ctx>> \o args, args |-> args]
    ELSE [out  |-> [i \in 1..Len(args) |-> Replace(args[i], rp, ctx)],
          args |-> [i \in 1..Len(args) |-> Replace(args[i], rp, ctx)]]

\* lines 151-162, the closure applied to ctx: out is what it returns and args
\* is the captured slice after the call.  append starts from a fresh
\* one-element slice and make allocates out, so args is only read.
replaceArgs(args, rp, ctx) ==
    IF rp = <<>>
    THEN [out |-> <<ContextFlag \o ctx>> \o args, args |-> args]
    ELSE [out  |-> [i \in 1..Len(args) |-> Replace(args[i], rp, ctx)],
          args |-> args]

\* lines 245-250: the loop of maxLen from element i on, with max so far
RECURSIVE maxLenFrom(_, _, _)
maxLenFrom(s, i, max) ==
    IF i > Len(s) THEN max
    ELSE maxLenFrom(s, i + 1, IF Len(s[i]) > max THEN Len(s[i]) ELSE max)

\* a width taken from the last name only
maxLen_m(s) == Len(s[Len(s)])

\* lines 244-252
maxLen(s) == maxLenFrom(s, 1, 0)

\* strings.Repeat(c, k)
Repeat(c, k) == [i \in 1..k |-> c]

\* lines 185-187, with the local maxLen as width: s is the name (the colour
\* codes that colFn puts around it are not visible) and origLen its length
leftPad(s, origLen, width) == Repeat(" ", width - origLen) \o s

\* main calls replaceArgs (line 145) and runAll, which computes the width
\* (line 184) before its loop
BuildStart ==
    /\ buildPc = "call"
    /\ padWidth' = maxLen(kubeCtxs)
    /\ buildPc' = "loop"
    /\ UNCHANGED <<mainVars, promptVars, runVars, ctxDone, cancelSnap,
                   kubeCtxs, kubectlArgs, repl, prefix, argv, syncVars>>

\* line 235 of the next loop iteration: the prefix of its two writers
BuildPrefix ==
    /\ buildPc = "loop"
    /\ Len(prefix) < Len(kubeCtxs)
    /\ LET kctx == kubeCtxs[Len(prefix) + 1]
       IN  prefix' = Append(prefix, leftPad(kctx, Len(kctx), padWidth) \o Separator)
    /\ UNCHANGED <<mainVars, promptVars, runVars, ctxDone, cancelSnap,
                   buildPc, kubeCtxs, kubectlArgs, repl, padWidth, argv, syncVars>>

\* line 238 in the goroutine of iteration k: argMaker(kctx); the goroutines
\* run in any order
ArgMaker(k) ==
    /\ buildPc = "loop"
    /\ k \in 1..Len(prefix)
    /\ k \notin DOMAIN argv
    /\ LET r == replaceArgs(kubectlArgs, repl, kubeCtxs[k])
       IN  /\ argv' = [i \in DOMAIN argv \cup {k} |-> IF i = k THEN r.out ELSE argv[i]]
           /\ kubectlArgs' = r.args
    /\ UNCHANGED <<mainVars, promptVars, runVars, ctxDone, cancelSnap,
                   buildPc, kubeCtxs, repl, padWidth, prefix, syncVars>>

\* ---- the interrupt ------------------------------------------------------

\* os.Interrupt after signal.NotifyContext: ctx is cancelled, and with it the
\* context derived by errgroup; a select blocked in prompt takes its
\* ctx.Done() arm (pr.Close(), return, deferred pw.Close())
Cancel ==
    /\ Alive /\ ~ctxDone
    /\ pc \notin {"parse", "separate", "notify"}
    /\ ctxDone' = TRUE
    /\ groupCtxDone' = (groupCtxDone \/ pc = "loop")
    /\ cancelSnap' = IF pc = "loop" THEN task ELSE cancelSnap
    /\ IF promptPc = "parked" /\ CtxDoneArm(TRUE)
         THEN /\ promptRet' = "cancelled"
              /\ promptPc' = "returned"
              /\ prClosed' = TRUE
              /\ pwClosed' = TRUE
         ELSE UNCHANGED <<promptRet, promptPc, prClosed, pwClosed>>
    /\ UNCHANGED <<mainVars, stdinRead, copyPc, chunk, scanPc, sbuf,
                   n, next, task, res, sem, gerr, runErr, buildVars, syncVars>>

\* ---- specification ------------------------------------------------------

Next ==
    \/ ParseFlags
    \/ SeparateArgs
    \/ NotifyContext
    \/ CheckWorkers
    \/ KubeContexts
    \/ ParseFilters
    \/ MatchContexts
    \/ Gate
    \/ PromptStart
    \/ CopierRead
    \/ CopierEOF
    \/ CopierWriteFail
    \/ ScanRead
    \/ ScanClosed
    \/ PromptRecv
    \/ PromptCtx
    \/ PromptPark
    \/ PromptReturned
    \/ RunAllStart
    \/ Dispatch
    \/ \E k \in Indices : TaskStart(k)
    \/ \E k \in Indices : TaskKill(k)
    \/ \E k \in Indices : TaskExit(k)
    \/ \E k \in Indices : TaskKilledExit(k)
    \/ RunAllWait
    \/ MainEnd
    \/ \E k \in Indices : TaskWrite(k)
    \/ \E k \in Indices : TaskWriteEnd(k)
    \/ SigWrite
    \/ SigWriteEnd
    \/ Cancel

Spec == Init /\ [][Next]_vars

\* The Go scheduler runs every goroutine that can run, and a killed process
\* exits; a process that is not killed need not exit, and the input stream
\* need not deliver anything.
FairSpec ==
    /\ Spec
    /\ WF_vars(Dispatch)
    /\ WF_vars(RunAllWait)
    /\ \A k \in 1..MaxTargets : WF_vars(k \in Indices /\ TaskStart(k))
    /\ \A k \in 1..MaxTargets : WF_vars(k \in Indices /\ TaskKill(k))
    /\ \A k \in 1..MaxTargets : WF_vars(k \in Indices /\ TaskKilledExit(k))
    /\ \A k \in 1..MaxTargets : WF_vars(k \in Indices /\ TaskWriteEnd(k))

\* runAll on every list of names, arguments and value of -I within the bounds
BuildInit ==
    /\ MainInit
    /\ buildPc = "call"
    /\ kubeCtxs \in NameLists
    /\ kubectlArgs \in ArgLists
    /\ repl \in Strs(0, MaxReplLen)
    /\ padWidth = -1
    /\ prefix = <<>>
    /\ argv = <<>>

BuildNext ==
    \/ BuildStart
    \/ BuildPrefix
    \/ \E k \in 1..MaxTargets : ArgMaker(k)

BuildSpec == BuildInit /\ [][BuildNext]_vars

\* ---- properties ---------------------------------------------------------

\* Tasks started and not yet finished
ActiveTasks == {k \in Indices : task[k] \in {"launched", "running", "killed"}}

\* C1: with a concurrency limit -c > 0, the number of Tasks that were started
\* and have not finished never exceeds the limit.
C1_BoundedConcurrency ==
    workers > 0 => Cardinality(ActiveTasks) <= workers

\* C1 witness: every slot is occupied while a target still waits for one
C1_Witness ==
    /\ pc = "loop" /\ workers > 0
    /\ Cardinality(ActiveTasks) = workers
    /\ next <= Len(ctxMatches)

\* C2: a failed Task neither stops the dispatch of the remaining targets nor
\* terminates a running Task: runAll returns only with every target
\* dispatched and finished, and as long as the signal context is not
\* cancelled no command is killed or refused because of a context.
C2_BestEffort ==
    /\ pc = "runReturned" => \A k \in 1..Len(ctxMatches) : task[k] = "done"
    /\ ~ctxDone => \A k \in Indices : task[k] # "killed" /\ res[k] \notin {"ctx", "killed"}

\* C2 witness: with one slot, the first Task failed and the second one was
\* dispatched afterwards and succeeded
C2_Witness ==
    /\ pc = "runReturned" /\ ~ctxDone
    /\ n = 1 /\ Len(ctxMatches) = 2
    /\ res[1] = "exit" /\ res[2] = "nil"

\* C3 (as claimed): once the context is cancelled, no Task goroutine is
\* launched for a target that was not dispatched before.
C3_NoLaunchAfterCancel ==
    [][ctxDone => \A k \in Indices : task[k] = "idle" => task'[k] = "idle"]_vars

\* the dispatch loop waits in wg.Go for a slot
AcquireBlocked == pc = "loop" /\ next <= Len(ctxMatches) /\ ~SemAcquirable(sem, n)

\* C4 (as claimed): a cancellation that finds the dispatch loop waiting for
\* a slot unblocks it: the loop does not go on waiting for a Task to finish.
C4_CancelUnblocksAcquire ==
    [][(AcquireBlocked /\ ~ctxDone /\ ctxDone') => ~AcquireBlocked']_vars

\* the context was cancelled while runAll had Tasks outstanding
CancelledInRun == cancelSnap # <<>> /\ \E k \in DOMAIN cancelSnap : cancelSnap[k] # "done"

CancelHit == \E k \in DOMAIN cancelSnap : cancelSnap[k] \in {"idle", "launched"} \/ res[k] = "killed"

C6_AggregateError ==
    /\ runErr # "none" =>
         /\ runErr = "nil" <=> \A k \in Indices : res[k] = "nil"
         /\ sem = 0 /\ ActiveTasks = {}
    /\ (pc = "exited" /\ runErr # "none") =>
         (exitCode = 0 <=> \A k \in Indices : res[k] = "nil")

\* C6 witness: the process exited with a failure although a later Task
\* succeeded
C6_Witness ==
    /\ pc = "exited" /\ exitCode # 0 /\ runErr # "none"
    /\ Len(ctxMatches) = 2
    /\ res[1] = "exit" /\ res[2] = "nil"

\* C7 (as claimed): every pre-execution failure ends the run with a non-zero
\* status and without runAll having been called.
C7_PreExecFailure ==
    exitReason \in {"flagerr", "separgs", "negc", "ctxlist", "pattern", "nomatch",
                    "refused", "cancelled"}
        => exitCode # 0 /\ task = <<>> /\ runErr = "none"

\* C8: prompt's verdict is that of the first line alone: it returns ok or
\* the refusal only after a whole line was read, ok exactly when that line
\* (up to the line terminator, "\n" or "\r\n") is empty, "y" or "Y", and
\* under a context that is not cancelled it returns nothing else.
C8_FirstLineDecides ==
    /\ promptRet \in {"ok", "refused"} =>
         /\ \E i \in 1..Len(stdinRead) : stdinRead[i] = "nl"
         /\ LET i == CHOOSE j \in 1..Len(stdinRead) :
                        stdinRead[j] = "nl" /\ \A h \in 1..(j-1) : stdinRead[h] # "nl"
                e == IF i > 1 /\ stdinRead[i-1] = "cr" THEN i - 2 ELSE i - 1
                line == SubSeq(stdinRead, 1, e)
            IN  promptRet = "ok" <=> line \in {<<>>, <<"y">>, <<"Y">>}
    /\ (promptPc = "returned" /\ ~ctxDone) => promptRet \in {"ok", "refused"}

\* C8 witness: an accepted first line followed by a rejecting one
C8_Witness ==
    /\ promptRet = "ok" /\ ~ctxDone
    /\ stdinRead = <<"Y", "nl", "n">>

\* C9: once the context is cancelled and prompt has reached its select, with
\* no whole line read from the input stream, prompt has returned the
\* cancelled outcome: it does not stay blocked waiting for input.
C9_CancelBeforeLine ==
    (ctxDone /\ promptPc \in {"parked", "returned"}
        /\ \A i \in 1..Len(stdinRead) : stdinRead[i] # "nl")
      => promptRet = "cancelled"

\* C9 witness: prompt returned cancelled while io.Copy still waits for the
\* first byte of the input stream
C9_Witness ==
    /\ promptRet = "cancelled"
    /\ stdinRead = <<>> /\ copyPc = "read"

\* C10 (as claimed): after prompt returned the cancelled outcome, the
\* scanning goroutine is not left at a send on the result channel, which
\* nothing receives from any more.
C10_NoLeakAfterCancel ==
    promptRet = "cancelled" => ~ScanDoneArm

\* main has passed the confirmation gate towards runAll
PastGate ==
    \/ pc \in {"runAll", "loop", "runReturned"}
    \/ pc = "exited" /\ exitReason \in {"ok", "taskfail"}

\* C11 (as claimed): with the environment variable set, prompt is never
\* called and the matched contexts are still printed.
C11_EnvListsTargets ==
    envSet => promptPc = "idle" /\ copyPc = "idle" /\ scanPc = "idle" /\ listed

\* C11 (amended): with the environment variable set, prompt is never called
\* and nothing is read from the input stream, whatever -q is, main goes on
\* to runAll, and the matched contexts are not printed.
C11_EnvSkipsGate ==
    envSet =>
        /\ promptPc = "idle" /\ copyPc = "idle" /\ scanPc = "idle"
        /\ stdinRead = <<>>
        /\ PastGate
        /\ ~listed

\* C11 witness: the variable is set, -q is not, and runAll dispatches
C11_Witness ==
    envSet /\ ~quiet /\ pc = "loop" /\ next > 1

\* C12: with -q and the variable unset, past the gate the matched contexts
\* were printed and prompt was not called nor the input stream read; with
\* neither -q nor the variable, runAll is reached only after prompt returned
\* ok.
C12_QuietAndPrompt ==
    /\ quiet => promptPc = "idle" /\ copyPc = "idle" /\ scanPc = "idle" /\ stdinRead = <<>>
    /\ (PastGate /\ quiet /\ ~envSet) => listed
    /\ (PastGate /\ ~quiet /\ ~envSet) => listed /\ promptPc = "returned" /\ promptRet = "ok"

\* C12 witness: -q, variable unset, runAll dispatches
C12_Witness ==
    quiet /\ ~envSet /\ pc = "loop" /\ next > 1 /\ listed

\* C14: without a positive -c the number of slots is the number of matched
\* contexts and the dispatch loop never waits for a slot; with a positive -c
\* it is exactly that value, also above the number of matched contexts.
C14_SlotCount ==
    pc \in {"loop", "runReturned"} =>
        /\ workers > 0 => n = workers
        /\ workers <= 0 => n = Len(ctxMatches) /\ ~AcquireBlocked

\* C14 witness: no -c, and all matched contexts are in flight at once
C14_Witness ==
    /\ pc = "loop" /\ workers = 0
    /\ Len(ctxMatches) = MaxTargets
    /\ Cardinality(ActiveTasks) = MaxTargets

\* C15: each matched context gets one Task that moves forward only (not
\* dispatched, started, command running, finished), so its command is
\* started at most once and its single result never changes; there is no
\* Task outside the Match Set; when runAll has returned every Task has
\* finished with a result.
C15_OneResultPerTask ==
    /\ [](DOMAIN task \subseteq 1..Len(ctxMatches))
    /\ [](runErr # "none" => \A k \in Indices : task[k] = "done" /\ res[k] # "none")
    /\ [][\A k \in Indices :
            /\ task[k] # "idle" => task'[k] # "idle"
            /\ task[k] \in {"running", "killed", "done"} => task'[k] # "launched"
            /\ task[k] \in {"killed", "done"} => task'[k] # "running"
            /\ task[k] = "done" => task'[k] = "done"
            /\ res[k] # "none" => res'[k] = res[k]
            /\ (res[k] = "none" /\ res'[k] # "none") => task'[k] = "done"]_vars

\* C15 witness: runAll returned after a Task had failed
C15_Witness ==
    /\ pc = "runReturned"
    /\ \E k \in Indices : res[k] = "exit"

\* C16: Tasks are dispatched in Match Set order: the Tasks that have been
\* started are exactly those of the indices before the loop's position.
C16_DispatchOrder ==
    pc \in {"loop", "runReturned"} =>
        \A k \in Indices : task[k] # "idle" <=> k < next

\* C16 witness: the second Task has already finished while the first one is
\* still running
C16_Witness ==
    /\ pc = "loop" /\ Len(ctxMatches) = 2
    /\ task[1] = "running" /\ task[2] = "done"

\* C19 (as claimed): once prompt has received a verdict, the scanning
\* goroutine has terminated; it is not at a second send.
C19_OneVerdict ==
    (promptPc = "returned" /\ promptRet \in {"ok", "refused"}) => scanPc = "done"

\* C20 (as claimed): end-of-input reaches the scanner: once io.Copy has
\* returned, the scanner is not left waiting on a pipe that nobody closed.
C20_EOFPropagated ==
    (copyPc = "done" /\ scanPc = "scan") => (prClosed \/ pwClosed)

\* the start positions of old in s
Occ(s, old) ==
    {p \in 1..(Len(s) - Len(old) + 1) : SubSeq(s, p, p + Len(old) - 1) = old}

\* the occurrences that do not overlap an earlier chosen one
Chosen(s, old) ==
    CHOOSE S \in SUBSET Occ(s, old) :
        \A p \in Occ(s, old) : p \in S <=> ~\E q \in S : q < p /\ p < q + Len(old)

\* r is s with each chosen occurrence of old replaced by t and every other
\* character kept at its place
IsReplaced(s, old, t, r) ==
    LET S == Chosen(s, old)
        Shift(i) == (Len(t) - Len(old)) * Cardinality({q \in S : q < i})
    IN  /\ Len(r) = Len(s) + (Len(t) - Len(old)) * Cardinality(S)
        /\ \A p \in S : SubSeq(r, p + Shift(p), p + Shift(p) + Len(t) - 1) = t
        /\ \A i \in 1..Len(s) :
              (~\E q \in S : q <= i /\ i < q + Len(old)) => r[i + Shift(i)] = s[i]

\* C13: the vector a closure gets for its context t is, with a non-empty -I
\* value, as long as the arguments after `--`, each element being the
\* corresponding argument with the occurrences of the value (left to right,
\* not overlapping) replaced by t, and no --context= element; without -I it
\* is "--context=t" followed by the arguments; the shared arguments never
\* change, so the vector does not depend on the closures that ran before.
C13_ArgVector ==
    /\ [][kubectlArgs' = kubectlArgs]_vars
    /\ [](\A k \in DOMAIN argv :
            IF repl = <<>>
            THEN argv[k] = <<ContextFlag \o kubeCtxs[k]>> \o kubectlArgs
            ELSE /\ Len(argv[k]) = Len(kubectlArgs)
                 /\ \A i \in 1..Len(kubectlArgs) :
                       /\ IsReplaced(kubectlArgs[i], repl, kubeCtxs[k], argv[k][i])
                       /\ \A j \in 1..Len(argv[k][i]) : argv[k][i][j] # ContextFlag[1])

\* C13 witness: two closures got their vectors, the second context first, for
\* an argument in which the -I value occurs at overlapping positions
C13_Witness ==
    /\ DOMAIN argv = {1, 2}
    /\ repl = <<"a", "a">>
    /\ kubeCtxs[1] # kubeCtxs[2]
    /\ kubectlArgs = <<<<"a", "a", "a">>, <<"b">>>>
    /\ argv[2] = <<kubeCtxs[2] \o <<"a">>, <<"b">>>>

\* the n characters before the name in a prefix are spaces
IsPadded(p, nm) ==
    /\ Len(p) >= Len(nm) + Len(Separator)
    /\ SubSeq(p, Len(p) - Len(Separator) + 1, Len(p)) = Separator
    /\ SubSeq(p, Len(p) - Len(Separator) - Len(nm) + 1, Len(p) - Len(Separator)) = nm
    /\ \A i \in 1..(Len(p) - Len(Separator) - Len(nm)) : p[i] = " "

\* C18: the width is computed before the first prefix is built, it is the
\* length of the longest name of the whole list, and it never changes
\* afterwards; no name is longer than it; every prefix is spaces, the name
\* and " | ", and is as wide as the longest name plus 3.
C18_PaddingWidth ==
    /\ [][buildPc = "loop" => padWidth' = padWidth]_vars
    /\ [](prefix # <<>> => buildPc = "loop")
    /\ [](buildPc = "loop" =>
            /\ \A k \in 1..Len(kubeCtxs) : padWidth - Len(kubeCtxs[k]) >= 0
            /\ \E k \in 1..Len(kubeCtxs) : padWidth = Len(kubeCtxs[k])
            /\ \A k \in 1..Len(prefix) :
                  /\ Len(prefix[k]) = padWidth + 3
                  /\ IsPadded(prefix[k], kubeCtxs[k]))

\* C18 witness: the prefixes of a long name followed by a short one
C18_Witness ==
    /\ Len(prefix) = 2
    /\ Len(kubeCtxs[1]) > Len(kubeCtxs[2])
    /\ Len(prefix[1]) = Len(prefix[2])

\* C17 (as claimed): the goroutine that reports the interrupt does not
\* write to the error stream while a Task's write to it is in progress.
C17_ErrStreamSerialized ==
    sigPc = "write" => errLock = 0

====
